---- MODULE Spec2Model ----
(***************************************************************************)
(* Model of the scrape/export orchestrator of HingeSDK                     *)
(* (hingesdk/tools.py, HingeTools.scrape_recommendations_multiple) and of   *)
(* the remote calls it makes through hingesdk/api.py and                    *)
(* hingesdk/client.py.                                                      *)
(*                                                                         *)
(* A Python dict that the code iterates or serialises (existing_data, the  *)
(* JSON document in the store file) is an association list: a sequence of  *)
(* [key, value] entries in insertion order with pairwise distinct keys.    *)
(* A dict that is only read by key (rating_tokens, a JSON object of a      *)
(* response) is a TLA+ function whose DOMAIN is the set of keys.           *)
(***************************************************************************)
EXTENDS Integers, Sequences, FiniteSets, TLC

\* ------------------------------------------------------------------ bounds
\* largest value of the `iterations` argument explored
MaxIterations == 2
\* largest number of feeds in one recommendations response
MaxFeeds == 2
\* largest number of profiles in one profile-lookup response
MaxProfiles == 2
MaxPhotos == 3
MaxStandouts == 1
MaxRequests == 2
MaxBatch == 2

\* identities the remote service may name
Ids == {"u1", "u2"}
\* rating tokens the remote service may hand out during the run
Tokens == {"t1", "t2"}
\* the rating token of records persisted by an earlier run
OldToken == "t0"
\* Python's None
None == "None"

\* ----------------------------------------------------------------- helpers
\* every sequence over S of length 0..n
SeqsUpTo(S, n) == UNION {[1..k -> S] : k \in 0..n}

\* the set of elements of a sequence
Range(s) == {s[j] : j \in 1..Len(s)}

\* dict.get(key, default) on a JSON object
Get(d, k, default) == IF k \in DOMAIN d THEN d[k] ELSE default

\* ------------------------------------------- insertion-ordered dict (store)
DictKeys(d) == {d[j].key : j \in 1..Len(d)}

\* `k in d`
DictHas(d, k) == k \in DictKeys(d)

\* d[k]
DictGet(d, k) == d[CHOOSE j \in 1..Len(d) : d[j].key = k].value

\* d[k] = v : replaces in place when the key exists, appends otherwise
DictSet(d, k, v) ==
    IF DictHas(d, k)
    THEN [j \in 1..Len(d) |-> IF d[j].key = k THEN [key |-> k, value |-> v] ELSE d[j]]
    ELSE Append(d, [key |-> k, value |-> v])

\* ------------------------------------------------------ the JSON store file
\* A file is [exists, complete, entries]: `entries` are the serialised
\* key/value members that reached the disk, `complete` says the document was
\* written to its closing brace.
AbsentFile == [exists |-> FALSE, complete |-> FALSE, entries |-> <<>>]

\* open(path, "w"): the file exists and is truncated to nothing
TruncatedFile == [exists |-> TRUE, complete |-> FALSE, entries |-> <<>>]

\* a dump that writes the newest record only
JsonDumpNewest(d) ==
    IF Len(d) = 0 THEN <<>> ELSE << <<d[Len(d)].key, d[Len(d)].value>> >>

\* json.dump(existing_data, f): the members of the document in dict order
JsonDump(d) == [j \in 1..Len(d) |-> <<d[j].key, d[j].value>>]

RECURSIVE JsonLoadFrom(_, _, _)
JsonLoadFrom(entries, j, acc) ==
    IF j > Len(entries) THEN acc
    ELSE JsonLoadFrom(entries, j + 1, DictSet(acc, entries[j][1], entries[j][2]))

\* json.load(f) of a complete document: members in file order, a repeated
\* member name keeps its first position and its last value
JsonLoad(entries) == JsonLoadFrom(entries, 1, <<>>)

\* -------------------------------------------------- the question-map asset
\* assets/prompts.json as the code reads it
QuestionData ==
    [text |-> [prompts |-> << [id |-> "q1", prompt |-> "Prompt one"] >>]]

QuestionMap ==
    LET ps == Get(Get(QuestionData, "text", <<>>), "prompts", <<>>)
    IN  [q \in {ps[j].id : j \in 1..Len(ps)} |->
            ps[CHOOSE j \in 1..Len(ps) : ps[j].id = q /\ \A l \in (j+1)..Len(ps) : ps[l].id # q].prompt]

\* ------------------------------------------------------- remote responses
\* the profile document behind the records an earlier run persisted: a text
\* answer to a known question, a photo with all its ids
ProfileA ==
    [firstName |-> "A",
     answers |-> << [questionId |-> "q1", response |-> "hello"] >>,
     photos |-> << [url |-> "http://p/1", cdnId |-> "c1", contentId |-> "k1"] >>]

\* the profile document the remote service returns during the run: a voice
\* answer to a question the map does not know, a photo with a url only
ProfileB ==
    [firstName |-> "B", age |-> "30",
     answers |-> << [questionId |-> "q9", type |-> "voice", url |-> "http://v/1",
                     transcription |-> [transcript |-> "hi"]] >>,
     photos |-> << [url |-> "http://p/2"] >>]

ProfileDocs == {ProfileB}

\* the elements of a get_public_users response
PublicUsers == {[identityId |-> u, profile |-> p] : u \in Ids, p \in ProfileDocs}

ProfileResponses == SeqsUpTo(PublicUsers, MaxProfiles)

\* the subjects of a feed: an identity paired with its rating token
Subjects == {[subjectId |-> u, ratingToken |-> t] : u \in Ids, t \in Tokens}

\* a feed has no "subjects" member, an empty list, or one subject
FeedDocs ==
    {[origin |-> "x"]} \cup {[subjects |-> <<>>]} \cup {[subjects |-> <<s>>] : s \in Subjects}

\* a recommendations response has no "feeds" member or up to MaxFeeds feeds
RecResponses ==
    {[status |-> "ok"]} \cup {[feeds |-> fs] : fs \in SeqsUpTo(FeedDocs, MaxFeeds)}

\* the error kinds HingeClient._request raises
TransportErrors == {"HingeAuthError", "HingeRequestError", "HingeAPIError"}

\* --------------------------------------------- pure steps of one iteration
RECURSIVE FeedSubjects(_, _)
\* the subjects visited by `for feed in feeds: for subject in feed.get("subjects", [])`
FeedSubjects(feeds, j) ==
    IF j > Len(feeds) THEN <<>>
    ELSE Get(feeds[j], "subjects", <<>>) \o FeedSubjects(feeds, j + 1)

AllSubjects(recommendations) == FeedSubjects(Get(recommendations, "feeds", <<>>), 1)

\* user_ids after the collecting loop
CollectUserIds(recommendations) ==
    LET ss == AllSubjects(recommendations)
    IN  [j \in 1..Len(ss) |-> ss[j].subjectId]

\* rating_tokens after the collecting loop: a later subject with the same
\* identity replaces the token of an earlier one
CollectRatingTokens(recommendations) ==
    LET ss == AllSubjects(recommendations)
    IN  [u \in {ss[j].subjectId : j \in 1..Len(ss)} |->
            ss[CHOOSE j \in 1..Len(ss) :
                  /\ ss[j].subjectId = u
                  /\ \A l \in (j + 1)..Len(ss) : ss[l].subjectId # u].ratingToken]

\* one entry of `prompts`
PromptData(answer) ==
    LET base == [question |-> Get(QuestionMap, answer.questionId, "Unknown Question"),
                 question_id |-> answer.questionId,
                 type |-> Get(answer, "type", "text")]
    IN  IF base.type = "voice"
        THEN [question |-> base.question, question_id |-> base.question_id,
              type |-> base.type,
              response |-> Get(Get(answer, "transcription", [x \in {} |-> None]),
                               "transcript", ""),
              voice_url |-> Get(answer, "url", None),
              waveform |-> Get(answer, "waveform", None)]
        ELSE [question |-> base.question, question_id |-> base.question_id,
              type |-> base.type,
              response |-> Get(answer, "response", "")]

\* one entry of `images`
ImageData(photo) ==
    [url |-> photo.url, cdn_id |-> Get(photo, "cdnId", None),
     content_id |-> Get(photo, "contentId", None)]

\* a record built without looking up the identity's token
MakeRecordWithoutToken(profile, rating_tokens) ==
    LET user_id == profile.identityId
        profile_data == Get(profile, "profile", [x \in {} |-> None])
        answers == Get(profile_data, "answers", <<>>)
        photos == Get(profile_data, "photos", <<>>)
    IN  [profile_info |->
            [k \in DOMAIN profile_data \ {"answers", "photos"} |-> profile_data[k]],
         prompts |-> [j \in 1..Len(answers) |-> PromptData(answers[j])],
         images |-> [j \in 1..Len(photos) |-> ImageData(photos[j])],
         interaction_data |->
            [subject_id |-> user_id,
             rating_token |-> None,
             source |-> "recommendations"]]

\* the record built for a new profile
MakeRecord(profile, rating_tokens) ==
    LET user_id == profile.identityId
        profile_data == Get(profile, "profile", [x \in {} |-> None])
        answers == Get(profile_data, "answers", <<>>)
        photos == Get(profile_data, "photos", <<>>)
    IN  [profile_info |->
            [k \in DOMAIN profile_data \ {"answers", "photos"} |-> profile_data[k]],
         prompts |-> [j \in 1..Len(answers) |-> PromptData(answers[j])],
         images |-> [j \in 1..Len(photos) |-> ImageData(photos[j])],
         interaction_data |->
            [subject_id |-> user_id,
             rating_token |-> Get(rating_tokens, user_id, None),
             source |-> "recommendations"]]

\* the state of the processing loop: the store and the two counters
LoopState(data, new, dup) ==
    [existing_data |-> data, new_profiles |-> new, duplicate_profiles |-> dup]

\* the loop body without the membership test: every profile is stored
ProcessProfileOverwrites(st, profile, rating_tokens) ==
    LoopState(DictSet(st.existing_data, profile.identityId,
                      MakeRecord(profile, rating_tokens)),
              st.new_profiles + 1, st.duplicate_profiles)

\* the loop body with the duplicate counter left alone
ProcessProfileMiscounts(st, profile, rating_tokens) ==
    IF DictHas(st.existing_data, profile.identityId)
    THEN LoopState(st.existing_data, st.new_profiles, st.duplicate_profiles)
    ELSE LoopState(DictSet(st.existing_data, profile.identityId,
                           MakeRecord(profile, rating_tokens)),
                   st.new_profiles + 1, st.duplicate_profiles)

\* the body of `for profile in profiles` for one profile
ProcessProfile(st, profile, rating_tokens) ==
    IF DictHas(st.existing_data, profile.identityId)
    THEN LoopState(st.existing_data, st.new_profiles, st.duplicate_profiles + 1)
    ELSE LoopState(DictSet(st.existing_data, profile.identityId,
                           MakeRecord(profile, rating_tokens)),
                   st.new_profiles + 1, st.duplicate_profiles)

RECURSIVE ProcessFrom(_, _, _, _)
\* `break` in place of `continue` at a duplicate: the loop ends there
ProcessFromBreaks(profiles, j, st, rating_tokens) ==
    IF j > Len(profiles) THEN st
    ELSE IF DictHas(st.existing_data, profiles[j].identityId)
         THEN ProcessProfile(st, profiles[j], rating_tokens)
         ELSE ProcessFrom(profiles, j + 1, ProcessProfile(st, profiles[j], rating_tokens),
                          rating_tokens)

ProcessFrom(profiles, j, st, rating_tokens) ==
    IF j > Len(profiles) THEN st
    ELSE ProcessFrom(profiles, j + 1, ProcessProfile(st, profiles[j], rating_tokens),
                     rating_tokens)

\* the whole processing loop of one iteration
ProcessProfiles(profiles, data, rating_tokens) ==
    ProcessFrom(profiles, 1, LoopState(data, 0, 0), rating_tokens)

\* ------------------------------------------------------------------ state
VARIABLES
    pc,                 \* where the run is: load, fetch, lookup, write, dump,
                        \* sleep, done, raised, killed
    iterations,         \* the `iterations` argument
    mapping_present,    \* whether assets/prompts.json exists
    file,               \* the store file on disk
    existing_data,      \* the in-memory store
    i,                  \* the loop variable: iterations completed so far
    rating_tokens,      \* local of the current iteration, from its collection
                        \* to its last use in the processing loop
    new_profiles,       \* counter of the current iteration
    duplicate_profiles, \* counter of the current iteration
    error,              \* the exception raised to the caller, None if none
    \* history of the run, read by the properties only
    failure,            \* the error a remote call failed with, None if none
    file_ok,            \* the run found the store file absent or complete
    loaded,             \* the store as loaded at the start of the run
    committed,          \* the file as left by the last completed write
    returned_all,       \* every identity a profile lookup returned
    cycle,              \* what the current (or just ended) iteration did
    prev,               \* what the iteration before it did
    nFetch, nLookup, nOpen, nWrites, nSleeps

\* the state of the other operations of the SDK
VARIABLES
    \* one call of a HingeClient method
    rpc,                \* where the call is: idle, invoke, request, sent,
                        \* returned, raised
    auth_token,         \* the client's auth_token, None if not given
    session_id,         \* the client's session_id, None if not given
    call,               \* the method called and its arguments
    kwargs,             \* the arguments _request was called with
    attempts,           \* the calls of session.request so far
    response,           \* the response session.request returned, if any
    result,             \* what the call returned or raised
    \* one call of _download_user_images
    dpc,                \* where the call is: idle, loop, returned, raised
    photos,             \* profile.get("photos", [])
    idx,                \* photos the loop is done with
    downloads,          \* per photo, the calls of get_image for it
    saved,              \* the indices of the photos written to disk
    failed,             \* the indices of the photos whose download or write
                        \* failed
    \* create_profile_json
    source,             \* the `source` argument
    output_data         \* the dict the function builds and dumps

\* the state of the login and of the web server
VARIABLES
    \* one call of HingeClient.login_with_sms
    lpc,                \* where the call is: idle, initiate, prompt, verify,
                        \* returned, raised
    events,             \* the requests sent and prompts shown, in order
    initiate_status,    \* the status of the response to the initiate
                        \* request, 0 if none
    verify_status,      \* the status of the response to the verify request,
                        \* 0 if none
    verify_data,        \* the parsed body of the verify response, if any
    new_client,         \* the client returned, if any
    login_error,        \* the exception raised, None if none
    \* the FastAPI application of src/api.py
    handled,            \* the requests handled so far
    req,                \* the request handled last
    http_status,        \* the status it was answered with, 0 before any
    detail,             \* the detail of an error answer, None if none
    like_calls,         \* the calls of client.like_profile so far
    saved_file          \* saved_profiles.json

login == <<lpc, events, initiate_status, verify_status, verify_data, new_client, login_error>>
server == <<handled, req, http_status, detail, like_calls, saved_file>>
rest == <<login, server>>

client == <<rpc, auth_token, session_id, call, kwargs, attempts, response, result>>
download == <<dpc, photos, idx, downloads, saved, failed>>
export == <<source, output_data>>
elsewhere == <<client, download, export, rest>>

vars == <<pc, iterations, mapping_present, file, existing_data, i, rating_tokens, new_profiles, duplicate_profiles, error, failure,
          file_ok, loaded, committed, returned_all, cycle, prev,
          nFetch, nLookup, nOpen, nWrites, nSleeps, elsewhere>>

locals == <<rating_tokens, new_profiles, duplicate_profiles>>
counters == <<nFetch, nLookup, nOpen, nWrites, nSleeps>>
inputs == <<iterations, mapping_present, file_ok, elsewhere>>
scrape == <<pc, iterations, mapping_present, file, existing_data, i, locals, error, failure,
            file_ok, loaded, committed, returned_all, cycle, prev, counters>>

\* rating_tokens = {}
EmptyDict == [x \in {} |-> None]

\* a record as an earlier run persisted it
OldRecord(u) ==
    MakeRecord([identityId |-> u, profile |-> ProfileA], [x \in {u} |-> OldToken])

\* the stores an earlier run may have left in the file: empty, one record,
\* two records
InitStores ==
    {<<>>,
     <<[key |-> "u1", value |-> OldRecord("u1")]>>,
     <<[key |-> "u1", value |-> OldRecord("u1")], [key |-> "u2", value |-> OldRecord("u2")]>>}

\* the file before the run: absent, cut short by an interrupted write, or a
\* complete document
InitFiles ==
    {AbsentFile, TruncatedFile}
        \cup {[exists |-> TRUE, complete |-> TRUE, entries |-> JsonDump(d)] : d \in InitStores}

\* the history record of an iteration that has not called anything yet
NewCycle(f, d) ==
    [start_file |-> f, start_data |-> d, looked |-> FALSE,
     returned |-> <<>>, wrote |-> FALSE, slept |-> FALSE]

\* what is kept of an iteration once the next one starts
Summary(c) ==
    [ran |-> TRUE, looked |-> c.looked, start_keys |-> DictKeys(c.start_data),
     returned |-> c.returned]

NoSummary == [ran |-> FALSE, looked |-> FALSE, start_keys |-> {}, returned |-> <<>>]

\* no details, no arguments
Nothing == [none |-> TRUE]

\* no method of the client is being called
ClientIdle ==
    /\ rpc = "idle"
    /\ auth_token = None
    /\ session_id = None
    /\ call = Nothing
    /\ kwargs = Nothing
    /\ attempts = 0
    /\ response = Nothing
    /\ result = [kind |-> None, details |-> Nothing]

\* login_with_sms is not running
LoginIdle ==
    /\ lpc = "idle"
    /\ events = <<>>
    /\ initiate_status = 0
    /\ verify_status = 0
    /\ verify_data = Nothing
    /\ new_client = Nothing
    /\ login_error = None

\* the server has handled no request and saved_profiles.json does not exist
ServerIdle ==
    /\ handled = 0
    /\ req = Nothing
    /\ http_status = 0
    /\ detail = None
    /\ like_calls = 0
    /\ saved_file = [exists |-> FALSE, profiles |-> <<>>]

RestIdle == LoginIdle /\ ServerIdle

\* no image download is running
DownloadIdle ==
    /\ dpc = "idle"
    /\ photos = <<>>
    /\ idx = 0
    /\ downloads = <<>>
    /\ saved = {}
    /\ failed = {}

\* output_data = {} and the source the scrape stamps on its records
ExportIdle ==
    /\ source = "recommendations"
    /\ output_data = <<>>

\* no function of HingeTools is running
ToolsIdle ==
    /\ pc = "idle"
    /\ iterations = 0
    /\ mapping_present = TRUE
    /\ file = AbsentFile
    /\ existing_data = <<>>
    /\ i = 0
    /\ rating_tokens = EmptyDict
    /\ new_profiles = 0
    /\ duplicate_profiles = 0
    /\ error = None
    /\ failure = None
    /\ file_ok = TRUE
    /\ loaded = <<>>
    /\ committed = AbsentFile
    /\ returned_all = {}
    /\ cycle = NewCycle(AbsentFile, <<>>)
    /\ prev = NoSummary
    /\ nFetch = 0 /\ nLookup = 0 /\ nOpen = 0 /\ nWrites = 0 /\ nSleeps = 0

Init ==
    /\ ClientIdle /\ DownloadIdle /\ ExportIdle /\ RestIdle
    /\ pc = "load"
    /\ iterations \in 0..MaxIterations
    /\ mapping_present \in BOOLEAN
    /\ file \in InitFiles
    /\ existing_data = <<>>
    /\ i = 0
    /\ rating_tokens = EmptyDict
    /\ new_profiles = 0
    /\ duplicate_profiles = 0
    /\ error = None
    /\ failure = None
    /\ file_ok = (file.exists => file.complete)
    /\ loaded = <<>>
    /\ committed = file
    /\ returned_all = {}
    /\ cycle = NewCycle(file, <<>>)
    /\ prev = NoSummary
    /\ nFetch = 0 /\ nLookup = 0 /\ nOpen = 0 /\ nWrites = 0 /\ nSleeps = 0

\* ---------------------------------------------------------------- actions
\* except clauses that log and return instead of re-raising
ExceptHandlerSwallows(kind) ==
    /\ pc' = "done"
    /\ error' = None

\* except clauses that wrap what is not a HingeAPIError into one
ExceptHandlerWraps(kind) ==
    /\ pc' = "raised"
    /\ error' = IF kind \in TransportErrors THEN kind ELSE "HingeAPIError"

\* the except clauses of the function: log and re-raise
ExceptHandler(kind) ==
    /\ pc' = "raised"
    /\ error' = kind

\* a start that goes on to the loop without looking for the question map
LoadWithoutMappingCheck ==
    /\ pc = "load"
    /\ IF file.exists /\ ~file.complete
       THEN /\ ExceptHandler("JSONDecodeError")
            /\ UNCHANGED <<existing_data, loaded, cycle>>
       ELSE /\ existing_data' = IF file.exists THEN JsonLoad(file.entries) ELSE <<>>
            /\ loaded' = existing_data'
            /\ cycle' = NewCycle(file, existing_data')
            /\ pc' = "fetch" /\ UNCHANGED error
    /\ UNCHANGED <<inputs, file, i, locals, failure, committed, returned_all, prev, counters>>

\* the start of the function: load the store file, then the question map
Load ==
    /\ pc = "load"
    /\ IF file.exists /\ ~file.complete
       THEN /\ ExceptHandler("JSONDecodeError")
            /\ UNCHANGED <<existing_data, loaded, cycle>>
       ELSE /\ existing_data' = IF file.exists THEN JsonLoad(file.entries) ELSE <<>>
            /\ loaded' = existing_data'
            /\ cycle' = NewCycle(file, existing_data')
            /\ IF ~mapping_present
               THEN ExceptHandler("FileNotFoundError")
               ELSE pc' = "fetch" /\ UNCHANGED error
    /\ UNCHANGED <<inputs, file, i, locals, failure, committed, returned_all, prev, counters>>

\* the loop written as range(iterations - 1)
LoopOffByOne(iter, n) == iter < n - 1

\* `for i in range(iterations)`: another iteration follows
LoopContinues(iter, n) == iter < n

\* `return` in place of `continue` when no subject is found
AfterCollectReturns(ids) == IF Len(ids) = 0 THEN "done" ELSE "lookup"

\* no `continue`: an iteration without subjects falls through to the write
AfterCollectWrites(ids) == IF Len(ids) = 0 THEN "write" ELSE "lookup"

\* `if not user_ids: continue`, else go on to the profile lookup
AfterCollect(ids) == IF Len(ids) = 0 THEN "fetch" ELSE "lookup"

\* get_recommendations answers; the subjects are collected.  user_ids is
\* read by the emptiness test and by the lookup request only, so it is a
\* value of this step and no state.
FetchOk(recommendations) ==
    /\ pc = "fetch"
    /\ LoopContinues(i, iterations)
    /\ nFetch' = nFetch + 1
    /\ rating_tokens' = CollectRatingTokens(recommendations)
    /\ LET user_ids == CollectUserIds(recommendations)
       IN  pc' = AfterCollect(user_ids)
    /\ i' = IF pc' = "fetch" THEN i + 1 ELSE i
    /\ prev' = IF i = 0 THEN NoSummary ELSE Summary(cycle)
    /\ cycle' = NewCycle(file, existing_data)
    /\ UNCHANGED <<inputs, file, existing_data, new_profiles, duplicate_profiles, error,
                   failure, loaded, committed, returned_all, nLookup, nOpen, nWrites, nSleeps>>

\* get_recommendations fails in the transport layer
FetchFail(kind) ==
    /\ pc = "fetch"
    /\ LoopContinues(i, iterations)
    /\ nFetch' = nFetch + 1
    /\ failure' = kind
    /\ ExceptHandler(kind)
    /\ prev' = IF i = 0 THEN NoSummary ELSE Summary(cycle)
    /\ cycle' = NewCycle(file, existing_data)
    /\ UNCHANGED <<inputs, file, existing_data, i, locals, loaded, committed, returned_all,
                   nLookup, nOpen, nWrites, nSleeps>>

\* get_public_users answers; the profiles are processed and the result
\* logged.  rating_tokens is not read after the loop (the next iteration
\* starts from a fresh dict), so the model forgets it here.
LookupOk(profiles) ==
    /\ pc = "lookup"
    /\ nLookup' = nLookup + 1
    /\ LET st == ProcessProfiles(profiles, existing_data, rating_tokens)
       IN  /\ existing_data' = st.existing_data
           /\ new_profiles' = st.new_profiles
           /\ duplicate_profiles' = st.duplicate_profiles
    /\ returned_all' = returned_all \cup {profiles[j].identityId : j \in 1..Len(profiles)}
    /\ cycle' = [cycle EXCEPT !.looked = TRUE,
                              !.returned = [j \in 1..Len(profiles) |-> profiles[j].identityId]]
    /\ rating_tokens' = EmptyDict
    /\ pc' = "write"
    /\ UNCHANGED <<inputs, file, i, error, failure, loaded,
                   committed, prev, nFetch, nOpen, nWrites, nSleeps>>

\* get_public_users fails in the transport layer
LookupFail(kind) ==
    /\ pc = "lookup"
    /\ nLookup' = nLookup + 1
    /\ failure' = kind
    /\ ExceptHandler(kind)
    /\ UNCHANGED <<inputs, file, existing_data, i, locals, loaded, committed, returned_all,
                   cycle, prev, nFetch, nOpen, nWrites, nSleeps>>

\* open(output_path, "w")
WriteOpen ==
    /\ pc = "write"
    /\ file' = TruncatedFile
    /\ nOpen' = nOpen + 1
    /\ pc' = "dump"
    /\ UNCHANGED <<inputs, existing_data, i, locals, error, failure, loaded, committed,
                   returned_all, cycle, prev, nFetch, nLookup, nWrites, nSleeps>>

\* json.dump: the next member of the document reaches the file
WriteChunk ==
    /\ pc = "dump"
    /\ Len(file.entries) < Len(JsonDump(existing_data))
    /\ file' = [file EXCEPT
                  !.entries = Append(@, JsonDump(existing_data)[Len(file.entries) + 1])]
    /\ UNCHANGED <<pc, inputs, existing_data, i, locals, error, failure, loaded, committed,
                   returned_all, cycle, prev, counters>>

\* the sleep test written as `i < iterations`
SleepsAlways(iter, n) == iter < n

\* `if i < iterations - 1`: a sleep follows the write
SleepsAfter(iter, n) == iter < n - 1

\* the document is complete and the file closed; then the sleep test
WriteClose ==
    /\ pc = "dump"
    /\ Len(file.entries) = Len(JsonDump(existing_data))
    /\ file' = [file EXCEPT !.complete = TRUE]
    /\ committed' = file'
    /\ nWrites' = nWrites + 1
    /\ cycle' = [cycle EXCEPT !.wrote = TRUE]
    /\ IF SleepsAfter(i, iterations)
       THEN pc' = "sleep" /\ i' = i
       ELSE pc' = "fetch" /\ i' = i + 1
    /\ UNCHANGED <<inputs, existing_data, locals, error, failure, loaded, returned_all,
                   prev, nFetch, nLookup, nOpen, nSleeps>>

\* time.sleep(random.uniform(min_sleep, max_sleep)) returns
Sleep ==
    /\ pc = "sleep"
    /\ nSleeps' = nSleeps + 1
    /\ cycle' = [cycle EXCEPT !.slept = TRUE]
    /\ i' = i + 1
    /\ pc' = "fetch"
    /\ UNCHANGED <<inputs, file, existing_data, locals, error, failure, loaded, committed,
                   returned_all, prev, nFetch, nLookup, nOpen, nWrites>>

\* the loop is exhausted: the final log line, normal return
Complete ==
    /\ pc = "fetch"
    /\ ~LoopContinues(i, iterations)
    /\ pc' = "done"
    /\ UNCHANGED <<inputs, file, existing_data, i, locals, error, failure, loaded, committed,
                   returned_all, cycle, prev, counters>>

Terminal == pc \in {"done", "raised", "killed"}

\* the process is terminated from outside
Kill ==
    /\ ~Terminal
    /\ pc' = "killed"
    /\ UNCHANGED <<inputs, file, existing_data, i, locals, error, failure, loaded, committed,
                   returned_all, cycle, prev, counters>>

\* a step of the program itself
Run ==
    \/ Load
    \/ \E r \in RecResponses : FetchOk(r)
    \/ \E k \in TransportErrors : FetchFail(k)
    \/ \E ps \in ProfileResponses : LookupOk(ps)
    \/ \E k \in TransportErrors : LookupFail(k)
    \/ WriteOpen
    \/ WriteChunk
    \/ WriteClose
    \/ Sleep
    \/ Complete

Next == Run \/ Kill

Spec == Init /\ [][Next]_vars

\* -------------------------------------------------------------- properties
\* an iteration has just ended: `cycle` describes iteration i - 1
CycleEnded == pc \in {"fetch", "done"} /\ i > 0

\* every record of store a is in store b under the same key
Preserved(a, b) ==
    \A k \in DictKeys(a) : DictHas(b, k) /\ DictGet(b, k) = DictGet(a, k)

\* a sequence that names nothing twice
NoRepeat(seq) == \A a, b \in 1..Len(seq) : a # b => seq[a] # seq[b]

Max(a, b) == IF a >= b THEN a ELSE b

\* C1: no step of the run changes or removes a record the store already
\* holds, whatever the profile lookup returns for its identity; so the records
\* present when an iteration starts (loaded from the file or inserted by an
\* earlier iteration) are the same when it ends.
C1_ExistingNeverOverwritten ==
    [][Preserved(existing_data, existing_data')]_vars

\* an iteration after the first whose lookup returned an identity that the
\* file already held with other profile data and another token; the old
\* record is still there
C1_Witness ==
    /\ pc = "write"
    /\ i >= 1
    /\ duplicate_profiles > 0
    /\ \E k \in Range(cycle.returned) :
          /\ DictHas(cycle.start_data, k)
          /\ DictGet(existing_data, k) = OldRecord(k)

\* C2: after a run that returns normally the store has one entry per
\* identity, and its keys are the keys loaded from the file together with
\* every identity a profile lookup returned.
C2_KeysAreLoadedPlusReturned ==
    pc = "done" =>
        /\ NoRepeat([j \in 1..Len(existing_data) |-> existing_data[j].key])
        /\ DictKeys(existing_data) = DictKeys(loaded) \cup returned_all

\* a finished run of two lookups that started from a file with one record and
\* met one identity more
C2_Witness ==
    /\ pc = "done"
    /\ nLookup = 2
    /\ Len(loaded) = 1
    /\ Len(existing_data) = 2
    /\ returned_all = Ids

\* C3: when the store is empty at the start of an iteration whose lookup
\* returns the identities A and the lookup of the next iteration returns the
\* identities B, each once, then after the second iteration the store has
\* |A \cup B| records, its duplicate counter is |A \cap B| and its new-profile
\* counter is |B| - |A \cap B|.
C3_OverlapAccounting ==
    (/\ cycle.looked
     /\ prev.ran /\ prev.looked /\ prev.start_keys = {}
     /\ NoRepeat(cycle.returned))
    => LET A == Range(prev.returned)
           B == Range(cycle.returned)
           k == Cardinality(A \cap B)
       IN  /\ Len(existing_data) = Cardinality(A \cup B)
           /\ duplicate_profiles = k
           /\ new_profiles = Cardinality(B) - k

\* two iterations from an empty store: the first returns one identity, the
\* second returns that one and another
C3_Witness ==
    /\ cycle.looked
    /\ prev.ran /\ prev.looked /\ prev.start_keys = {}
    /\ NoRepeat(cycle.returned)
    /\ Cardinality(Range(prev.returned)) = 1
    /\ Cardinality(Range(cycle.returned)) = 2
    /\ duplicate_profiles = 1
    /\ new_profiles = 1

\* the lookup of the ended iteration returned only identities the store held
AllReturnedKnown == cycle.looked /\ Range(cycle.returned) \subseteq DictKeys(cycle.start_data)

\* C4 as stated: an iteration whose lookup returns only identities already in
\* the store inserts nothing, writes, sleeps unless it is the last one, and
\* leaves the file as it was before the iteration.
C4_FileUnchanged ==
    (CycleEnded /\ AllReturnedKnown) =>
        /\ new_profiles = 0
        /\ cycle.wrote
        /\ cycle.slept <=> i < iterations
        /\ file = cycle.start_file

\* C4 amended: such an iteration inserts nothing, writes the unchanged store
\* as a complete document, sleeps unless it is the last one, and leaves the
\* file as it was provided the file existed before the iteration.
C4_IdempotentCycle ==
    (CycleEnded /\ AllReturnedKnown) =>
        /\ new_profiles = 0
        /\ existing_data = cycle.start_data
        /\ cycle.wrote
        /\ cycle.slept <=> i < iterations
        /\ file.exists /\ file.complete
        /\ file.entries = JsonDump(cycle.start_data)
        /\ cycle.start_file.exists => file = cycle.start_file

\* an iteration that is not the last, over a file with two records, whose
\* lookup returned both: written, slept, file as before
C4_Witness ==
    /\ CycleEnded /\ AllReturnedKnown
    /\ pc = "fetch" /\ i < iterations
    /\ Range(cycle.returned) = Ids
    /\ duplicate_profiles = 2
    /\ cycle.wrote /\ cycle.slept
    /\ nOpen >= 1
    /\ file = cycle.start_file

\* C5: a recommendations response without subjects raises nothing, is
\* followed by no profile lookup, changes neither the store nor the file, and
\* the run goes on with the next iteration.
C5_EmptyCycleIsSkipped ==
    [][(/\ pc = "fetch"
        /\ nFetch' = nFetch + 1
        /\ failure' = None
        /\ rating_tokens' = EmptyDict)
       => (/\ pc' = "fetch"
           /\ i' = i + 1
           /\ error' = None
           /\ existing_data' = existing_data
           /\ file' = file
           /\ nLookup' = nLookup
           /\ nOpen' = nOpen
           /\ nSleeps' = nSleeps)]_vars

\* after an iteration without subjects, over a non-empty store, with another
\* iteration to come
C5_Witness ==
    /\ pc = "fetch"
    /\ i >= 1 /\ i < iterations
    /\ ~cycle.looked
    /\ nFetch = i
    /\ Len(existing_data) > 0
    /\ error = None

\* C6 as stated: after every ended iteration, one without subjects included,
\* the file exists and holds the whole store.
C6_FileAlwaysWritten ==
    CycleEnded =>
        /\ file.exists /\ file.complete
        /\ JsonLoad(file.entries) = existing_data

\* C6 amended: after an iteration that found subjects the file exists and
\* holds the whole store; an iteration without subjects writes nothing and
\* leaves the file as it was (absent, if nothing wrote it before); whenever
\* the file exists after an iteration it holds the whole store.
C6_FileWrittenWhenSubjects ==
    CycleEnded =>
        /\ cycle.looked =>
              /\ cycle.wrote
              /\ file.exists /\ file.complete
              /\ JsonLoad(file.entries) = existing_data
        /\ ~cycle.looked => ~cycle.wrote /\ file = cycle.start_file
        /\ file.exists => file.complete /\ JsonLoad(file.entries) = existing_data

\* the first iteration of a run without a file, having found a new identity:
\* the file is there and holds it
C6_Witness ==
    /\ CycleEnded
    /\ i = 1
    /\ cycle.looked
    /\ ~cycle.start_file.exists
    /\ new_profiles >= 1
    /\ file.complete
    /\ Len(file.entries) >= 1

Rank ==
    LET M == Cardinality(Ids)
        W == M + 6
        left == W * (iterations - i)
    IN  CASE pc = "load" -> W * (iterations + 2)
          [] pc = "fetch" -> left + M + 5
          [] pc = "lookup" -> left + M + 4
          [] pc = "write" -> left + M + 3
          [] pc = "dump" -> left + 2 + (Len(existing_data) - Len(file.entries))
          [] pc = "sleep" -> left + 1
          [] OTHER -> 0

\* the run has ended by itself: it returned or raised
Ended == pc \in {"done", "raised"}

C9_AbortKeepsFlushedFile ==
    failure # None =>
        /\ failure \in TransportErrors
        /\ pc = "raised"
        /\ error = failure
        /\ ~ENABLED Next
        /\ file = committed
        /\ file = cycle.start_file
        /\ nOpen = nWrites

\* a lookup fails in the second iteration; the record the first iteration
\* added is in the file
C9_Witness ==
    /\ failure = "HingeRequestError"
    /\ pc = "raised"
    /\ i = 1
    /\ nLookup = 2
    /\ nWrites = 1
    /\ Len(file.entries) > Len(loaded)
    /\ file.complete

\* C10 as stated: when the process is killed and a completely written file
\* with records existed, the file on disk is still that complete document.
C10_KilledFileIntact ==
    (pc = "killed" /\ committed.complete /\ Len(committed.entries) > 0) => file = committed

\* C11: every document a completed write leaves in the file holds, under
\* the same keys, every record of the store loaded at the start of the run
\* and every record of the document the write before it left.
C11_WritesGrowMonotonically ==
    [][committed' # committed =>
          /\ committed'.complete
          /\ Preserved(loaded, JsonLoad(committed'.entries))
          /\ committed.complete =>
                Preserved(JsonLoad(committed.entries), JsonLoad(committed'.entries))]_vars

\* the second write of a run over a file with one record: the file holds that
\* record, the one the first write added, and nothing was lost
C11_Witness ==
    /\ nWrites = 2
    /\ Len(loaded) = 1
    /\ Len(cycle.start_file.entries) = 1
    /\ cycle.wrote
    /\ Len(committed.entries) = 2
    /\ Preserved(loaded, JsonLoad(committed.entries))

\* ------------------------------------------------ the client: one call
\* the values of the client's auth_token and session_id: absent, empty, set
AuthTokens == {None, "", "tok"}
SessionIds == {None, "s1"}

\* truthiness of an optional argument: None, the empty string and the empty
\* dict (written "{}") are false
Truthy(x) == x \notin {None, "", "{}"}

\* str.lower() on the header names of the model
Lower(k) ==
    CASE k = "Authorization" -> "authorization"
      [] k = "AUTHORIZATION" -> "authorization"
      [] k = "X-Session-Id" -> "x-session-id"
      [] OTHER -> k

\* {} as the headers of a call
NoHeaders == [k \in {} |-> None]

\* an update that keeps the value d has for a key of both
UpdateKeepsOld(d, e) ==
    [k \in DOMAIN d \cup DOMAIN e |-> IF k \in DOMAIN d THEN d[k] ELSE e[k]]

\* d.update(e) on a copy of d
Update(d, e) ==
    [k \in DOMAIN d \cup DOMAIN e |-> IF k \in DOMAIN e THEN e[k] ELSE d[k]]

\* f"Bearer {auth_token}"
Bearer(token) == IF token = "tok" THEN "Bearer tok" ELSE "Bearer"

\* self.default_headers as __init__ leaves it
DefaultHeaders(token, sid) ==
    LET platform == [k \in {"x-app-version", "x-device-platform"} |->
                        IF k = "x-app-version" THEN "9.105.0" ELSE "iOS"]
        auth == IF Truthy(token)
                THEN [k \in {"Authorization"} |-> Bearer(token)] ELSE NoHeaders
        sess == IF Truthy(sid)
                THEN [k \in {"X-Session-Id"} |-> sid] ELSE NoHeaders
    IN  Update(Update(platform, auth), sess)

\* the headers a caller may hand to get_standouts or get_image
CallerHeaders ==
    {NoHeaders,
     [k \in {"x-extra"} |-> "1"],
     [k \in {"authorization"} |-> "Bearer tok"],
     [k \in {"AUTHORIZATION", "x-extra"} |-> IF k = "x-extra" THEN "1" ELSE "Bearer tok"],
     [k \in {"Authorization"} |-> "Bearer caller"]}

DEFAULT_MEDIA_HEADERS ==
    [k \in {"host", "user-agent"} |->
        IF k = "host" THEN "media.hingenexus.com" ELSE "okhttp/4.12.0"]

ContentType == [k \in {"content-type"} |-> "application/json; charset=UTF-8"]

\* the methods that pass fixed arguments to _request: method, url, whether a
\* json payload is passed, the headers passed
SimpleApis ==
    {[api |-> "send_message", method |-> "POST", url |-> "/message/send",
      json |-> TRUE, headers |-> ContentType],
     [api |-> "get_recommendations", method |-> "POST", url |-> "/rec/v2",
      json |-> TRUE, headers |-> NoHeaders],
     [api |-> "get_public_users", method |-> "GET", url |-> "/user/v2/public",
      json |-> FALSE, headers |-> NoHeaders],
     [api |-> "get_public_content", method |-> "GET", url |-> "/content/v1/public",
      json |-> FALSE, headers |-> NoHeaders],
     [api |-> "get_settings", method |-> "GET", url |-> "/content/v1/settings",
      json |-> FALSE, headers |-> NoHeaders],
     [api |-> "get_auth_settings", method |-> "GET", url |-> "/auth/settings",
      json |-> FALSE, headers |-> NoHeaders],
     [api |-> "get_notification_settings", method |-> "GET",
      url |-> "/notification/v1/settings", json |-> FALSE, headers |-> NoHeaders],
     [api |-> "get_like_limit", method |-> "GET", url |-> "/likelimit",
      json |-> FALSE, headers |-> NoHeaders],
     [api |-> "get_user_traits", method |-> "GET", url |-> "/user/v2/traits",
      json |-> FALSE, headers |-> NoHeaders],
     [api |-> "get_account_info", method |-> "GET", url |-> "/store/v2/account",
      json |-> FALSE, headers |-> NoHeaders],
     [api |-> "get_export_status", method |-> "GET", url |-> "/user/export/status",
      json |-> FALSE, headers |-> NoHeaders]}

\* the comment, photo and prompt arguments of like_profile: omitted, empty,
\* given
LikeArgs ==
    [comment : {None, "", "hi"}, photo : {None, "{}", "photo"},
     prompt : {None, "{}", "prompt"}]

\* the calls of the model
Calls ==
    {[api |-> "like_profile", args |-> a] : a \in LikeArgs}
        \cup {[api |-> m.api, args |-> Nothing] : m \in SimpleApis}
        \cup {[api |-> "get_standouts", args |-> h] : h \in CallerHeaders}
        \cup {[api |-> "get_image", args |-> h] : h \in CallerHeaders}

\* a content block that keeps the first populated argument only
LikeContentFirstOnly(args) ==
    LET given == {k \in {"comment", "photo", "prompt"} : Truthy(args[k])}
        first == IF "comment" \in given THEN {"comment"}
                 ELSE IF "photo" \in given THEN {"photo"} ELSE given
    IN  [k \in first |-> args[k]]

\* content = {}; if comment: ...; if photo: ...; if prompt: ...
LikeContent(args) ==
    [k \in {k \in {"comment", "photo", "prompt"} : Truthy(args[k])} |-> args[k]]

\* a payload that always has a content key
LikePayloadAlwaysContent(args, sid) ==
    [ratingId |-> "uuid4", ratingToken |-> "t1", subjectId |-> "u1",
     sessionId |-> sid, rating |-> "note", origin |-> "compatibles",
     hasPairing |-> FALSE, created |-> "utcnow", initiatedWith |-> "standard",
     content |-> LikeContent(args)]

\* the payload of like_profile
LikePayload(args, sid) ==
    LET payload == [ratingId |-> "uuid4", ratingToken |-> "t1", subjectId |-> "u1",
                    sessionId |-> sid, rating |-> "note", origin |-> "compatibles",
                    hasPairing |-> FALSE, created |-> "utcnow",
                    initiatedWith |-> "standard"]
        content == LikeContent(args)
    IN  IF DOMAIN content # {} THEN payload @@ ("content" :> content) ELSE payload

\* a payload of the other POST methods
OtherPayload(api) == [payload_of |-> api]

\* the statuses and bodies the server may answer with
Statuses == {200, 201, 204, 299, 300, 304, 399, 400, 401, 403, 404, 500, 599}
Bodies == {"", "body"}

\* a check that takes every status outside 200..299 for an error
RaiseForStatusNon2xx(status) == status < 200 \/ status >= 300

\* response.raise_for_status() raises HTTPError for 4xx and 5xx
RaiseForStatus(status) == 400 <= status /\ status < 600

\* an error kind that does not single out 401
RaisedKindNo401(status) == "HingeRequestError"

\* if e.response.status_code == 401: raise HingeAuthError(...); raise error
RaisedKind(status) == IF status = 401 THEN "HingeAuthError" ELSE "HingeRequestError"

\* a filter that drops the header spelled Authorization only
SanitizeExactCase(headers) ==
    [k \in {h \in DOMAIN headers : h # "Authorization"} |-> headers[k]]

\* {k: v for k, v in headers.items() if k.lower() not in ['authorization']}
Sanitize(headers) ==
    [k \in {h \in DOMAIN headers : Lower(h) \notin {"authorization"}} |-> headers[k]]

\* response_body or 'No response body'
BodyOr(text) == IF text = "" THEN "No response body" ELSE text

InitClient ==
    /\ ToolsIdle /\ DownloadIdle /\ ExportIdle /\ RestIdle
    /\ rpc = "invoke"
    /\ auth_token \in AuthTokens
    /\ session_id \in SessionIds
    /\ call \in Calls
    /\ kwargs = Nothing
    /\ attempts = 0
    /\ response = Nothing
    /\ result = [kind |-> None, details |-> Nothing]

\* like_profile up to its call of _request
LikeProfile ==
    /\ rpc = "invoke"
    /\ call.api = "like_profile"
    /\ kwargs' = [method |-> "POST", url |-> "/rate/v2/initiate",
                  headers |-> ContentType,
                  json |-> LikePayload(call.args, session_id)]
    /\ rpc' = "request"
    /\ UNCHANGED <<scrape, download, export, rest, auth_token, session_id, call, attempts,
                   response, result>>

\* get_standouts up to its call of _request
GetStandouts ==
    /\ rpc = "invoke"
    /\ call.api = "get_standouts"
    /\ kwargs' = [method |-> "GET", url |-> "/standouts/v2",
                  headers |-> Update(NoHeaders, call.args), json |-> Nothing]
    /\ rpc' = "request"
    /\ UNCHANGED <<scrape, download, export, rest, auth_token, session_id, call, attempts,
                   response, result>>

\* HingeMediaClient.get_image up to its call of _request
GetImage ==
    /\ rpc = "invoke"
    /\ call.api = "get_image"
    /\ kwargs' = [method |-> "GET", url |-> "media/image_path",
                  headers |-> Update(DEFAULT_MEDIA_HEADERS, call.args),
                  json |-> Nothing]
    /\ rpc' = "request"
    /\ UNCHANGED <<scrape, download, export, rest, auth_token, session_id, call, attempts,
                   response, result>>

\* the other methods up to their call of _request
SimpleApi ==
    /\ rpc = "invoke"
    /\ \E m \in SimpleApis :
        /\ m.api = call.api
        /\ kwargs' = [method |-> m.method, url |-> m.url, headers |-> m.headers,
                      json |-> IF m.json THEN OtherPayload(m.api) ELSE Nothing]
    /\ rpc' = "request"
    /\ UNCHANGED <<scrape, download, export, rest, auth_token, session_id, call, attempts,
                   response, result>>

\* _request: merge the default headers over the caller's, call
\* session.request
Request ==
    /\ rpc = "request"
    /\ kwargs' = [kwargs EXCEPT
                    !.headers = Update(@, DefaultHeaders(auth_token, session_id))]
    /\ attempts' = attempts + 1
    /\ rpc' = "sent"
    /\ UNCHANGED <<scrape, download, export, rest, auth_token, session_id, call, response,
                   result>>

\* raise_for_status passes: return response
ReturnResponse(status, text) ==
    /\ rpc = "sent"
    /\ ~RaiseForStatus(status)
    /\ response' = [status_code |-> status, text |-> text]
    /\ result' = [kind |-> "Response", details |-> response']
    /\ rpc' = "returned"
    /\ UNCHANGED <<scrape, download, export, rest, auth_token, session_id, call, kwargs,
                   attempts>>

\* except requests.exceptions.HTTPError
RaiseHTTPError(status, text) ==
    /\ rpc = "sent"
    /\ RaiseForStatus(status)
    /\ response' = [status_code |-> status, text |-> text]
    /\ result' = [kind |-> RaisedKind(status),
                  details |-> [status_code |-> status,
                               response_body |-> BodyOr(text),
                               endpoint |-> kwargs.url,
                               request_headers |-> Sanitize(kwargs.headers),
                               request_body |-> kwargs.json]]
    /\ rpc' = "raised"
    /\ UNCHANGED <<scrape, download, export, rest, auth_token, session_id, call, kwargs,
                   attempts>>

\* a handler that sends the request once more before it gives up
RaiseRequestExceptionRetries ==
    /\ rpc = "sent"
    /\ IF attempts < 2
       THEN rpc' = "request" /\ UNCHANGED result
       ELSE /\ rpc' = "raised"
            /\ result' = [kind |-> "HingeAPIError",
                          details |-> [exception_type |-> "ConnectionError",
                                       url |-> kwargs.url, method |-> kwargs.method]]
    /\ UNCHANGED <<scrape, download, export, rest, auth_token, session_id, call, kwargs,
                   attempts, response>>

\* a handler that raises the error kind of a failed response
RaiseRequestExceptionAsRequestError ==
    /\ rpc = "sent"
    /\ rpc' = "raised"
    /\ result' = [kind |-> "HingeRequestError",
                  details |-> [status_code |-> 0, endpoint |-> kwargs.url]]
    /\ UNCHANGED <<scrape, download, export, rest, auth_token, session_id, call, kwargs,
                   attempts, response>>

\* except requests.exceptions.RequestException: no response arrived
RaiseRequestException ==
    /\ rpc = "sent"
    /\ rpc' = "raised"
    /\ result' = [kind |-> "HingeAPIError",
                  details |-> [exception_type |-> "ConnectionError",
                               url |-> kwargs.url, method |-> kwargs.method]]
    /\ UNCHANGED <<scrape, download, export, rest, auth_token, session_id, call, kwargs,
                   attempts, response>>

NextClient ==
    \/ LikeProfile
    \/ GetStandouts
    \/ GetImage
    \/ SimpleApi
    \/ Request
    \/ \E st \in Statuses, text \in Bodies : ReturnResponse(st, text)
    \/ \E st \in Statuses, text \in Bodies : RaiseHTTPError(st, text)
    \/ RaiseRequestException

SpecClient == InitClient /\ [][NextClient]_vars

\* the call has come to its end
CallEnded == rpc \in {"returned", "raised"}

\* the details of an error raised for a response: status, endpoint, the
\* request's headers other than authorization, the request and response body
CarriesContext(details) ==
    /\ details.status_code = response.status_code
    /\ details.endpoint = kwargs.url
    /\ \A k \in DOMAIN kwargs.headers :
          Lower(k) # "authorization" =>
              /\ k \in DOMAIN details.request_headers
              /\ details.request_headers[k] = kwargs.headers[k]
    /\ DOMAIN details.request_headers \subseteq DOMAIN kwargs.headers
    /\ details.request_body = kwargs.json
    /\ response.text # "" => details.response_body = response.text
    /\ response.text = "" => details.response_body = "No response body"

\* C12: whichever method of the client is called, a response with status 401
\* makes the call raise HingeAuthError, and the error's details carry the
\* status code, the endpoint, the request's headers and the response body.
C12_Status401RaisesAuthError ==
    (response # Nothing /\ response.status_code = 401) =>
        /\ rpc = "raised"
        /\ result.kind = "HingeAuthError"
        /\ CarriesContext(result.details)

\* get_image answered 401 with a body
C12_Witness ==
    /\ call.api = "get_image"
    /\ response # Nothing
    /\ response.status_code = 401
    /\ response.text = "body"
    /\ result.kind = "HingeAuthError"
    /\ result.details.response_body = "body"

C15_NoAuthorizationRecorded ==
    (rpc = "raised" /\ result.kind \in {"HingeAuthError", "HingeRequestError"}) =>
        \A k \in DOMAIN result.details.request_headers : Lower(k) # "authorization"

\* the request carried the client's Authorization and a caller's
\* authorization header, and headers were recorded
C15_Witness ==
    /\ rpc = "raised"
    /\ result.kind = "HingeRequestError"
    /\ {"Authorization", "authorization"} \subseteq DOMAIN kwargs.headers
    /\ DOMAIN result.details.request_headers # {}

\* like_profile has sent its payload
LikeSent == call.api = "like_profile" /\ rpc \in {"sent", "returned", "raised"}

\* the keys of the content block of the payload, none if it has no block
ContentKeys(payload) ==
    IF "content" \in DOMAIN payload THEN DOMAIN payload.content ELSE {}

\* C18 as stated: whatever the caller passes, the content block of the
\* payload sent has at most one of the keys comment, photo, prompt.
C18_AtMostOneContentKey ==
    LikeSent => Cardinality(ContentKeys(kwargs.json)) <= 1

\* C18: the content block of the payload like_profile sends has exactly the
\* keys whose argument the caller passed non-empty, each with the value
\* passed; it has at most one key when the caller passes at most one of them.
C18_ContentKeysAreThosePassed ==
    LikeSent =>
        LET passed == {k \in {"comment", "photo", "prompt"} : Truthy(call.args[k])}
        IN  /\ ContentKeys(kwargs.json) = passed
            /\ \A k \in passed : kwargs.json.content[k] = call.args[k]
            /\ Cardinality(passed) <= 1 => Cardinality(ContentKeys(kwargs.json)) <= 1

\* a like sent with a comment, a photo and a prompt: the block has all three
C18_Witness ==
    /\ LikeSent
    /\ call.args = [comment |-> "hi", photo |-> "photo", prompt |-> "prompt"]
    /\ ContentKeys(kwargs.json) = {"comment", "photo", "prompt"}

\* C19: with photo and prompt omitted, a like with a non-empty comment sends
\* a payload whose content block has the key comment and no other; with an
\* empty or absent comment the payload has no content key.
C19_CommentOnlyContent ==
    (LikeSent /\ call.args.photo = None /\ call.args.prompt = None) =>
        IF call.args.comment \notin {None, ""}
        THEN /\ "content" \in DOMAIN kwargs.json
             /\ DOMAIN kwargs.json.content = {"comment"}
             /\ kwargs.json.content.comment = call.args.comment
        ELSE "content" \notin DOMAIN kwargs.json

\* a like sent with an empty comment and nothing else: no content key
C19_Witness ==
    /\ LikeSent
    /\ call.args = [comment |-> "", photo |-> None, prompt |-> None]
    /\ "content" \notin DOMAIN kwargs.json
    /\ "ratingToken" \in DOMAIN kwargs.json

\* ------------------------------------------------ _download_user_images
\* the photo documents of a profile: with a cdnId and a url, with a cdnId
\* only, without a cdnId, with an empty cdnId
PhotoDocs ==
    {[cdnId |-> "c1", url |-> "a.png"],
     [cdnId |-> "c2"],
     [url |-> "b.jpg"],
     [cdnId |-> "", url |-> "c.jpg"]}

\* the failures of a download or of writing the image file
DownloadErrors == TransportErrors \cup {"OSError"}

InitDownload ==
    /\ ToolsIdle /\ ClientIdle /\ ExportIdle /\ RestIdle
    /\ dpc = "call"
    /\ photos \in SeqsUpTo(PhotoDocs, MaxPhotos)
    /\ idx = 0
    /\ downloads = [j \in 1..Len(photos) |-> 0]
    /\ saved = {}
    /\ failed = {}

\* photos = profile.get("photos", []); if not photos: return
EnterDownload ==
    /\ dpc = "call"
    /\ dpc' = IF Len(photos) = 0 THEN "returned" ELSE "loop"
    /\ UNCHANGED <<scrape, client, export, rest, photos, idx, downloads, saved, failed>>

\* if not cdn_id: continue
SkipPhoto ==
    /\ dpc = "loop"
    /\ idx < Len(photos)
    /\ ~Truthy(Get(photos[idx + 1], "cdnId", None))
    /\ idx' = idx + 1
    /\ UNCHANGED <<scrape, client, export, rest, dpc, photos, downloads, saved, failed>>

\* get_image returned and the image file was written
DownloadPhoto ==
    /\ dpc = "loop"
    /\ idx < Len(photos)
    /\ Truthy(Get(photos[idx + 1], "cdnId", None))
    /\ downloads' = [downloads EXCEPT ![idx + 1] = @ + 1]
    /\ saved' = saved \cup {idx}
    /\ idx' = idx + 1
    /\ UNCHANGED <<scrape, client, export, rest, dpc, photos, failed>>

\* a handler that logs and lets the exception go on to the caller
ExceptLogsAndRaises ==
    /\ dpc' = "raised"
    /\ idx' = idx

\* except Exception as e: self.logger.error(...); the loop goes on
ExceptLogs ==
    /\ dpc' = "loop"
    /\ idx' = idx + 1

\* get_image raised, or it returned and open or write raised
DownloadFails(kind, at_save) ==
    /\ dpc = "loop"
    /\ idx < Len(photos)
    /\ Truthy(Get(photos[idx + 1], "cdnId", None))
    /\ at_save => kind = "OSError"
    /\ ~at_save => kind \in TransportErrors
    /\ downloads' = [downloads EXCEPT ![idx + 1] = @ + 1]
    /\ failed' = failed \cup {idx}
    /\ ExceptLogs
    /\ UNCHANGED <<scrape, client, export, rest, photos, saved>>

\* the loop is over: the function returns None
ReturnDownload ==
    /\ dpc = "loop"
    /\ idx = Len(photos)
    /\ dpc' = "returned"
    /\ UNCHANGED <<scrape, client, export, rest, photos, idx, downloads, saved, failed>>

NextDownload ==
    \/ EnterDownload
    \/ SkipPhoto
    \/ DownloadPhoto
    \/ \E kind \in DownloadErrors, at_save \in BOOLEAN : DownloadFails(kind, at_save)
    \/ ReturnDownload

SpecDownload == InitDownload /\ [][NextDownload]_vars

Sources == {"recommendations", "standouts"}

\* a standouts response has no "free" and "paid" members, or lists of up to
\* MaxStandouts subjects
StandoutResponses ==
    {[status |-> "ok"]}
        \cup {[free |-> f, paid |-> p] :
                f \in SeqsUpTo(Subjects, MaxStandouts), p \in SeqsUpTo(Subjects, MaxStandouts)}

\* standouts.get("free", []) + standouts.get("paid", [])
StandoutSubjects(standouts) ==
    Get(standouts, "free", <<>>) \o Get(standouts, "paid", <<>>)

\* user_ids after the collecting loop over the subjects ss
SubjectIds(ss) == [j \in 1..Len(ss) |-> ss[j].subjectId]

\* rating_tokens after the collecting loop over the subjects ss
SubjectTokens(ss) ==
    [u \in {ss[j].subjectId : j \in 1..Len(ss)} |->
        ss[CHOOSE j \in 1..Len(ss) :
              /\ ss[j].subjectId = u
              /\ \A l \in (j + 1)..Len(ss) : ss[l].subjectId # u].ratingToken]

\* a record that keeps the source of the scrape
ExportRecordUntagged(profile, tokens, src) == MakeRecord(profile, tokens)

\* output_data[user_id] = {...}: the record of the scrape, with the source
\* of this call
ExportRecord(profile, tokens, src) ==
    [MakeRecord(profile, tokens) EXCEPT !.interaction_data.source = src]

RECURSIVE ExportFrom(_, _, _, _, _)
\* `for profile in profiles: ... output_data[user_id] = {...}`
ExportFrom(profiles, j, data, tokens, src) ==
    IF j > Len(profiles) THEN data
    ELSE ExportFrom(profiles, j + 1,
                    DictSet(data, profiles[j].identityId,
                            ExportRecord(profiles[j], tokens, src)),
                    tokens, src)

InitExport ==
    /\ ClientIdle /\ DownloadIdle /\ RestIdle
    /\ source \in Sources
    /\ output_data = <<>>
    /\ pc = "x_load"
    /\ iterations = 0
    /\ mapping_present \in BOOLEAN
    /\ file \in InitFiles
    /\ existing_data = <<>>
    /\ i = 0
    /\ rating_tokens = EmptyDict
    /\ new_profiles = 0
    /\ duplicate_profiles = 0
    /\ error = None
    /\ failure = None
    /\ file_ok = (file.exists => file.complete)
    /\ loaded = <<>>
    /\ committed = file
    /\ returned_all = {}
    /\ cycle = NewCycle(file, <<>>)
    /\ prev = NoSummary
    /\ nFetch = 0 /\ nLookup = 0 /\ nOpen = 0 /\ nWrites = 0 /\ nSleeps = 0

\* what create_profile_json reads and leaves alone
xinputs == <<iterations, mapping_present, file_ok, client, download, rest, source>>

\* the start of create_profile_json: the question map
ExportLoad ==
    /\ pc = "x_load"
    /\ IF ~mapping_present
       THEN ExceptHandler("FileNotFoundError")
       ELSE pc' = "x_fetch" /\ UNCHANGED error
    /\ UNCHANGED <<xinputs, file, existing_data, i, locals, failure, loaded, committed,
                   returned_all, cycle, prev, counters, output_data>>

\* get_standouts or get_recommendations answers; the subjects are collected;
\* `if not user_ids: return`
ExportFetchOk(answer) ==
    /\ pc = "x_fetch"
    /\ IF source = "standouts"
       THEN answer \in StandoutResponses
       ELSE answer \in RecResponses
    /\ nFetch' = nFetch + 1
    /\ LET ss == IF source = "standouts"
                 THEN StandoutSubjects(answer) ELSE AllSubjects(answer)
       IN  /\ rating_tokens' = SubjectTokens(ss)
           /\ pc' = IF Len(SubjectIds(ss)) = 0 THEN "done" ELSE "x_lookup"
    /\ UNCHANGED <<xinputs, file, existing_data, i, new_profiles, duplicate_profiles,
                   error, failure, loaded, committed, returned_all, cycle, prev,
                   nLookup, nOpen, nWrites, nSleeps, output_data>>

\* the fetch fails in the transport layer
ExportFetchFail(kind) ==
    /\ pc = "x_fetch"
    /\ nFetch' = nFetch + 1
    /\ failure' = kind
    /\ ExceptHandler(kind)
    /\ UNCHANGED <<xinputs, file, existing_data, i, locals, loaded, committed,
                   returned_all, cycle, prev, nLookup, nOpen, nWrites, nSleeps,
                   output_data>>

\* get_public_users answers; output_data is built
ExportLookupOk(profiles) ==
    /\ pc = "x_lookup"
    /\ nLookup' = nLookup + 1
    /\ output_data' = ExportFrom(profiles, 1, <<>>, rating_tokens, source)
    /\ returned_all' = returned_all \cup {profiles[j].identityId : j \in 1..Len(profiles)}
    /\ rating_tokens' = EmptyDict
    /\ pc' = "x_write"
    /\ UNCHANGED <<xinputs, file, existing_data, i, new_profiles, duplicate_profiles,
                   error, failure, loaded, committed, cycle, prev,
                   nFetch, nOpen, nWrites, nSleeps>>

\* get_public_users fails in the transport layer
ExportLookupFail(kind) ==
    /\ pc = "x_lookup"
    /\ nLookup' = nLookup + 1
    /\ failure' = kind
    /\ ExceptHandler(kind)
    /\ UNCHANGED <<xinputs, file, existing_data, i, locals, loaded, committed,
                   returned_all, cycle, prev, nFetch, nOpen, nWrites, nSleeps,
                   output_data>>

\* open(output_path, "w")
ExportWriteOpen ==
    /\ pc = "x_write"
    /\ file' = TruncatedFile
    /\ nOpen' = nOpen + 1
    /\ pc' = "x_dump"
    /\ UNCHANGED <<xinputs, existing_data, i, locals, error, failure, loaded, committed,
                   returned_all, cycle, prev, nFetch, nLookup, nWrites, nSleeps,
                   output_data>>

\* json.dump(output_data, f): the next member reaches the file
ExportWriteChunk ==
    /\ pc = "x_dump"
    /\ Len(file.entries) < Len(JsonDump(output_data))
    /\ file' = [file EXCEPT
                  !.entries = Append(@, JsonDump(output_data)[Len(file.entries) + 1])]
    /\ UNCHANGED <<pc, xinputs, existing_data, i, locals, error, failure, loaded,
                   committed, returned_all, cycle, prev, counters, output_data>>

\* the document is complete and the file closed; the function returns
ExportWriteClose ==
    /\ pc = "x_dump"
    /\ Len(file.entries) = Len(JsonDump(output_data))
    /\ file' = [file EXCEPT !.complete = TRUE]
    /\ committed' = file'
    /\ nWrites' = nWrites + 1
    /\ pc' = "done"
    /\ UNCHANGED <<xinputs, existing_data, i, locals, error, failure, loaded,
                   returned_all, cycle, prev, nFetch, nLookup, nOpen, nSleeps,
                   output_data>>

ExportRun ==
    \/ ExportLoad
    \/ \E a \in StandoutResponses \cup RecResponses : ExportFetchOk(a)
    \/ \E k \in TransportErrors : ExportFetchFail(k)
    \/ \E ps \in ProfileResponses : ExportLookupOk(ps)
    \/ \E k \in TransportErrors : ExportLookupFail(k)
    \/ ExportWriteOpen
    \/ ExportWriteChunk
    \/ ExportWriteClose

\* a call of scrape_recommendations_multiple or of create_profile_json
InitTools == Init \/ InitExport

NextTools == Run \/ ExportRun

SpecTools == InitTools /\ [][NextTools]_vars

\* C16: with the question map absent, a scrape and a create_profile_json
\* call each end by raising, without any remote request and with the file as
\* it was before the call.
C16_NoMappingFailsBeforeRequests ==
    ~mapping_present =>
        /\ nFetch = 0 /\ nLookup = 0
        /\ nOpen = 0 /\ nWrites = 0
        /\ file = cycle.start_file
        /\ pc \in {"load", "x_load", "raised"}
        /\ pc = "raised" => error \in {"FileNotFoundError", "JSONDecodeError"}
        /\ pc \in {"load", "x_load"} => ENABLED NextTools

\* create_profile_json raised FileNotFoundError next to a file of two records
C16_Witness ==
    /\ ~mapping_present
    /\ i = 0 /\ iterations = 0
    /\ source = "standouts"
    /\ pc = "raised"
    /\ error = "FileNotFoundError"
    /\ Len(file.entries) = 2

\* C17 as stated: every failure of a scrape surfaces as HingeAuthError,
\* HingeRequestError or HingeAPIError; a missing question map and a
\* malformed store file surface as HingeAPIError.
C17_FailuresAreApiErrors ==
    pc = "raised" =>
        /\ error \in TransportErrors
        /\ failure = None => error = "HingeAPIError"

\* C17: a failure of a remote call surfaces as the error the transport layer
\* raised, one of HingeAuthError, HingeRequestError, HingeAPIError; a
\* malformed store file surfaces as JSONDecodeError and a missing question
\* map as FileNotFoundError, neither of which is a HingeAPIError.
C17_FailuresKeepTheirKind ==
    pc = "raised" =>
        /\ error \in TransportErrors \cup {"JSONDecodeError", "FileNotFoundError"}
        /\ failure # None => error = failure /\ error \in TransportErrors
        /\ (failure = None /\ ~file_ok) => error = "JSONDecodeError"
        /\ (failure = None /\ file_ok) => error = "FileNotFoundError" /\ ~mapping_present

\* a scrape over a malformed store file raised JSONDecodeError
C17_Witness ==
    /\ pc = "raised"
    /\ ~file_ok
    /\ nFetch = 0
    /\ error = "JSONDecodeError"

\* the token the response r pairs with the identity u: that of the last
\* subject of r with this identity, None when r has no such subject
PairedToken(r, u) ==
    LET ss == AllSubjects(r)
        at == {j \in 1..Len(ss) : ss[j].subjectId = u}
    IN  IF at = {} THEN None
        ELSE ss[CHOOSE j \in at : \A l \in at : l <= j].ratingToken

SpecExport == InitExport /\ [][ExportRun]_vars

\* C22: create_profile_json fetches once and looks up once; a call that
\* found a subject and returned leaves a complete file whose records are
\* those of the identities the lookup returned, built from the returned
\* profiles and tagged with the source of the call, whatever the file held
\* before; a call that found no subject leaves the file as it was.
C22_ExportOverwritesWithOneFetch ==
    /\ nFetch <= 1 /\ nLookup <= 1 /\ nWrites <= 1
    /\ pc \in {"x_lookup", "x_write", "x_dump"} => nFetch = 1
    /\ (pc = "done" /\ nLookup = 1) =>
          LET written == JsonLoad(file.entries)
          IN  /\ nWrites = 1
              /\ file.exists /\ file.complete
              /\ written = output_data
              /\ DictKeys(written) = returned_all
              /\ Len(written) = Cardinality(returned_all)
              /\ \A j \in 1..Len(written) :
                    LET rec == written[j].value
                    IN  /\ rec.interaction_data.source = source
                        /\ rec.interaction_data.subject_id = written[j].key
                        /\ rec.interaction_data.rating_token # OldToken
                        /\ rec.profile_info = [firstName |-> ProfileB.firstName,
                                               age |-> ProfileB.age]
    /\ (pc = "done" /\ nLookup = 0) =>
          /\ nFetch = 1
          /\ nOpen = 0
          /\ file = cycle.start_file

\* an export from the standouts over a file of two records returned with a
\* file of one record
C22_Witness ==
    /\ pc = "done"
    /\ source = "standouts"
    /\ Len(cycle.start_file.entries) = 2
    /\ file.complete
    /\ DictKeys(JsonLoad(file.entries)) = {"u2"}

\* C23: a call that ends without a response raises HingeAPIError, and the
\* details of the error are the name of the exception type, the url and the
\* method of the attempt.
C23_NetworkFailureRaisesApiError ==
    (CallEnded /\ response = Nothing) =>
        /\ rpc = "raised"
        /\ result.kind = "HingeAPIError"
        /\ DOMAIN result.details = {"exception_type", "url", "method"}
        /\ result.details.exception_type = "ConnectionError"
        /\ result.details.url = kwargs.url
        /\ result.details.method = kwargs.method

\* a like that got no response
C23_Witness ==
    /\ call.api = "like_profile"
    /\ rpc = "raised"
    /\ response = Nothing
    /\ result.details.method = "POST"
    /\ result.details.url = "/rate/v2/initiate"

\* the request has gone out
RequestSent == rpc \in {"sent", "returned", "raised"}

\* C24: a request sent carries the platform headers of the client, its
\* Authorization header when the client has a non-empty auth token and its
\* X-Session-Id header when it has a non-empty session id, each with the
\* client's value also when the caller passed a header of the same name;
\* without a token or session id the client adds no such header.
C24_DefaultHeadersWin ==
    RequestSent =>
        LET sent == kwargs.headers
            own == IF call.api \in {"get_standouts", "get_image"}
                   THEN DOMAIN call.args ELSE {}
        IN  /\ {"x-app-version", "x-device-platform"} \subseteq DOMAIN sent
            /\ sent["x-app-version"] = "9.105.0"
            /\ sent["x-device-platform"] = "iOS"
            /\ auth_token \notin {None, ""} =>
                  /\ "Authorization" \in DOMAIN sent
                  /\ sent["Authorization"] = "Bearer tok"
            /\ auth_token \in {None, ""} =>
                  ("Authorization" \in DOMAIN sent =>
                      /\ "Authorization" \in own
                      /\ sent["Authorization"] = call.args["Authorization"])
            /\ session_id \notin {None, ""} =>
                  /\ "X-Session-Id" \in DOMAIN sent
                  /\ sent["X-Session-Id"] = session_id
            /\ session_id \in {None, ""} => "X-Session-Id" \notin DOMAIN sent

\* get_image was called with an Authorization header of the caller's on a
\* client with a token: the request went out with the client's
C24_Witness ==
    /\ RequestSent
    /\ call.api = "get_image"
    /\ "Authorization" \in DOMAIN call.args
    /\ call.args["Authorization"] = "Bearer caller"
    /\ auth_token = "tok"
    /\ kwargs.headers["Authorization"] = "Bearer tok"

\* C25: once a cycle has looked the profiles up, its two counters add up to
\* the number of profiles the lookup returned and the store has grown by
\* new_profiles, also when the response names an identity more than once.
C25_CountersAddUp ==
    cycle.looked =>
        /\ new_profiles + duplicate_profiles = Len(cycle.returned)
        /\ Len(existing_data) = Len(cycle.start_data) + new_profiles

\* a lookup over a store of one record returned a new identity twice: one
\* new, one duplicate, two records
C25_Witness ==
    /\ cycle.looked
    /\ Len(cycle.start_data) = 1
    /\ cycle.returned = <<"u2", "u2">>
    /\ new_profiles = 1
    /\ duplicate_profiles = 1
    /\ Len(existing_data) = 2

\* ------------------------------------------------------- login_with_sms
\* the bodies of a verify response: not JSON, or a document with or without
\* a token and a session id
VerifyBodies ==
    {[unparsable |-> TRUE],
     [token |-> "tok", playerId |-> "p1", sessionId |-> "s1"],
     [token |-> "tok", playerId |-> "p1"],
     [token |-> "tok", sessionId |-> ""],
     [playerId |-> "p1", sessionId |-> "s1"],
     [token |-> "", sessionId |-> "s1"],
     [token |-> None, sessionId |-> None]}

\* a login that goes on to the prompt whatever the initiate request did
AfterInitiateGoesOn(st) == "prompt"

\* temp_client._request("POST", initiate_url, ...) returns or raises
AfterInitiate(st) == IF RaiseForStatus(st) THEN "raised" ELSE "prompt"

\* a session id taken from the response as it is
SessionIdAsGiven(sid) == sid

\* if not session_id: session_id = str(uuid.uuid4())
SessionIdOr(sid) == IF Truthy(sid) THEN sid ELSE "uuid4"

InitLogin ==
    /\ ToolsIdle /\ ClientIdle /\ DownloadIdle /\ ExportIdle /\ ServerIdle
    /\ lpc = "initiate"
    /\ events = <<>>
    /\ initiate_status = 0
    /\ verify_status = 0
    /\ verify_data = Nothing
    /\ new_client = Nothing
    /\ login_error = None

\* the initiate request is answered
InitiateResponds(st) ==
    /\ lpc = "initiate"
    /\ events' = Append(events, "initiate")
    /\ initiate_status' = st
    /\ lpc' = AfterInitiate(st)
    /\ login_error' = IF RaiseForStatus(st) THEN RaisedKind(st) ELSE None
    /\ UNCHANGED <<scrape, client, download, export, server, verify_status, verify_data,
                   new_client>>

\* the initiate request gets no response
InitiateNoResponse ==
    /\ lpc = "initiate"
    /\ events' = Append(events, "initiate")
    /\ lpc' = "raised"
    /\ login_error' = "HingeAPIError"
    /\ UNCHANGED <<scrape, client, download, export, server, initiate_status,
                   verify_status, verify_data, new_client>>

\* sms_code = input("Enter the SMS code received: ") returns
Prompt ==
    /\ lpc = "prompt"
    /\ events' = Append(events, "prompt")
    /\ lpc' = "verify"
    /\ UNCHANGED <<scrape, client, download, export, server, initiate_status,
                   verify_status, verify_data, new_client, login_error>>

\* input() raises at the end of the input
PromptEnds ==
    /\ lpc = "prompt"
    /\ events' = Append(events, "prompt")
    /\ lpc' = "raised"
    /\ login_error' = "EOFError"
    /\ UNCHANGED <<scrape, client, download, export, server, initiate_status,
                   verify_status, verify_data, new_client>>

\* the verify request is answered: parse, take the token and the session
\* id, build the client
VerifyResponds(st, body) ==
    /\ lpc = "verify"
    /\ events' = Append(events, "verify")
    /\ verify_status' = st
    /\ IF RaiseForStatus(st)
       THEN /\ lpc' = "raised"
            /\ login_error' = RaisedKind(st)
            /\ UNCHANGED <<verify_data, new_client>>
       ELSE IF "unparsable" \in DOMAIN body
       THEN /\ lpc' = "raised"
            /\ login_error' = "HingeAPIError"
            /\ UNCHANGED <<verify_data, new_client>>
       ELSE /\ verify_data' = body
            /\ IF ~Truthy(Get(body, "token", None))
               THEN /\ lpc' = "raised"
                    /\ login_error' = "HingeAPIError"
                    /\ UNCHANGED new_client
               ELSE /\ lpc' = "returned"
                    /\ new_client' =
                          [auth_token |-> Get(body, "token", None),
                           user_id |-> Get(body, "playerId", None),
                           session_id |-> SessionIdOr(Get(body, "sessionId", None))]
                    /\ UNCHANGED login_error
    /\ UNCHANGED <<scrape, client, download, export, server, initiate_status>>

\* the verify request gets no response
VerifyNoResponse ==
    /\ lpc = "verify"
    /\ events' = Append(events, "verify")
    /\ lpc' = "raised"
    /\ login_error' = "HingeAPIError"
    /\ UNCHANGED <<scrape, client, download, export, server, initiate_status,
                   verify_status, verify_data, new_client>>

NextLogin ==
    \/ \E st \in Statuses : InitiateResponds(st)
    \/ InitiateNoResponse
    \/ Prompt
    \/ PromptEnds
    \/ \E st \in Statuses, body \in VerifyBodies : VerifyResponds(st, body)
    \/ VerifyNoResponse

SpecLogin == InitLogin /\ [][NextLogin]_vars

\* C26: the login sends the initiate request, then prompts, then sends the
\* verify request; it prompts and verifies only after _request returned the
\* response to the initiate request; when the initiate request fails the
\* login ends there, with no prompt, no verify request and no client.
C26_InitiatePromptVerify ==
    /\ \E n \in 0..3 : events = SubSeq(<<"initiate", "prompt", "verify">>, 1, n)
    /\ Len(events) >= 2 => initiate_status \in 200..399
    /\ (Len(events) >= 1 /\ (initiate_status = 0 \/ initiate_status >= 400)) =>
          /\ events = <<"initiate">>
          /\ lpc = "raised"
          /\ login_error \in TransportErrors
          /\ new_client = Nothing
          /\ ~ENABLED NextLogin
    /\ new_client # Nothing => events = <<"initiate", "prompt", "verify">>

\* the initiate request was answered 500: the login raised at once
C26_Witness ==
    /\ initiate_status = 500
    /\ events = <<"initiate">>
    /\ lpc = "raised"
    /\ login_error = "HingeRequestError"

\* C27: a client is returned only with the token of the verify response,
\* which is not empty, and with a session id that is not empty: the
\* response's when it has one, a generated one otherwise; a verify response
\* without a token makes the login raise HingeAPIError and return no client.
C27_ClientHasTokenAndSession ==
    /\ lpc = "returned" <=> new_client # Nothing
    /\ new_client # Nothing =>
          /\ new_client.auth_token \notin {None, ""}
          /\ new_client.auth_token = verify_data.token
          /\ new_client.session_id \notin {None, ""}
          /\ IF "sessionId" \in DOMAIN verify_data
                /\ verify_data.sessionId \notin {None, ""}
             THEN new_client.session_id = verify_data.sessionId
             ELSE new_client.session_id = "uuid4"
    /\ (verify_data # Nothing
        /\ ("token" \notin DOMAIN verify_data \/ verify_data.token \in {None, ""})) =>
          /\ lpc = "raised"
          /\ login_error = "HingeAPIError"
          /\ new_client = Nothing

\* the verify response had a token and an empty session id: the client got
\* a generated session id
C27_Witness ==
    /\ lpc = "returned"
    /\ verify_data = [token |-> "tok", sessionId |-> ""]
    /\ new_client.auth_token = "tok"
    /\ new_client.session_id = "uuid4"

\* ------------------------------------------------- the FastAPI server
\* the bodies of POST /api/like: LikeRequest with content_id, question_id
\* absent, empty or given
LikeRequests ==
    [comment : {"", "hi"}, content_id : {None, "", "c1"}, question_id : {None, "", "q1"}]

\* the profiles a client posts to /api/save-profiles
PostedProfiles ==
    {[subjectId |-> "u1", name |-> "a"],
     [subjectId |-> "u1", name |-> "b"],
     [subjectId |-> "u2", name |-> "a"]}

\* saved_profiles.json before the first request: absent, empty, one profile
InitSaved ==
    {[exists |-> FALSE, profiles |-> <<>>],
     [exists |-> TRUE, profiles |-> <<>>],
     [exists |-> TRUE, profiles |-> << [subjectId |-> "u1", name |-> "a"] >>]}

\* what client.like_profile may do
LikeOutcomes == {"ok"} \cup TransportErrors

\* str(e) of the HTTPException raised in the else branch
Need400 == "400: Need either content_id or question_id"

\* except Exception as e: raise HTTPException(status_code=500, detail=str(e))
ExceptException(message) == [status |-> 500, detail |-> message]

\* [p for p in profiles if p.get("subjectId") not in existing_ids]
NewProfiles(profiles, existing) ==
    LET existing_ids == {Get(existing[j], "subjectId", None) : j \in 1..Len(existing)}
    IN  SelectSeq(profiles, LAMBDA q : Get(q, "subjectId", None) \notin existing_ids)

InitServer ==
    /\ ToolsIdle /\ ClientIdle /\ DownloadIdle /\ ExportIdle /\ LoginIdle
    /\ handled = 0
    /\ req = Nothing
    /\ http_status = 0
    /\ detail = None
    /\ like_calls = 0
    /\ saved_file \in InitSaved

\* POST /api/like
LikeEndpoint(body, outcome) ==
    /\ handled < MaxRequests
    /\ handled' = handled + 1
    /\ LET remote == Truthy(body.question_id) \/ Truthy(body.content_id)
           answer == IF ~remote THEN ExceptException(Need400)
                     ELSE IF outcome = "ok" THEN [status |-> 200, detail |-> None]
                     ELSE ExceptException(outcome)
       IN  /\ req' = [endpoint |-> "like", body |-> body, remote |-> remote]
           /\ like_calls' = IF remote THEN like_calls + 1 ELSE like_calls
           /\ http_status' = answer.status
           /\ detail' = answer.detail
    /\ UNCHANGED <<scrape, client, download, export, login, saved_file>>

\* POST /api/save-profiles
SaveProfiles(profiles) ==
    /\ handled < MaxRequests
    /\ handled' = handled + 1
    /\ LET existing == IF saved_file.exists THEN saved_file.profiles ELSE <<>>
           combined == existing \o NewProfiles(profiles, existing)
       IN  saved_file' = [exists |-> TRUE, profiles |-> combined]
    /\ req' = [endpoint |-> "save-profiles", body |-> profiles, remote |-> FALSE]
    /\ http_status' = 200
    /\ detail' = None
    /\ UNCHANGED <<scrape, client, download, export, login, like_calls>>

NextServer ==
    \/ \E body \in LikeRequests, outcome \in LikeOutcomes : LikeEndpoint(body, outcome)
    \/ \E profiles \in SeqsUpTo(PostedProfiles, MaxBatch) : SaveProfiles(profiles)

SpecServer == InitServer /\ [][NextServer]_vars

\* C28: a like request without content_id and without question_id is
\* answered 400 'Need either content_id or question_id' and makes no call of
\* like_profile.
C28_MissingIdsAnswered400 ==
    (/\ req # Nothing
     /\ req.endpoint = "like"
     /\ req.body.content_id \in {None, ""}
     /\ req.body.question_id \in {None, ""})
    => /\ http_status = 400
       /\ ~req.remote

\* the subjectId of every profile of a list, in order
SubjectIdsOf(profiles) ==
    [j \in 1..Len(profiles) |-> Get(profiles[j], "subjectId", None)]

\* C29: every save request leaves a file with at most one profile per
\* subjectId, also for a batch that names a subjectId twice, and keeps the
\* profiles the file held, unchanged and in place.
C29_SavedOncePerSubject ==
    [][/\ NoRepeat(SubjectIdsOf(saved_file'.profiles))
       /\ Len(saved_file'.profiles) >= Len(saved_file.profiles)
       /\ SubSeq(saved_file'.profiles, 1, Len(saved_file.profiles)) = saved_file.profiles]_vars

====
